---- MODULE Spec2Model ----
(***************************************************************************)
(* Model of src/main.py: the per-account workflow run_test_for_account,    *)
(* the retrying request client api_request, login_account,                 *)
(* get_running_data, the credential cache and the coordinator main.        *)
(*                                                                         *)
(* asyncio is cooperative: the code between two awaits runs atomically, so *)
(* every action below is one stretch of a coroutine from one suspension    *)
(* point (a pending request, a sleep) to the next one.                     *)
(***************************************************************************)
EXTENDS Integers, Sequences, FiniteSets, TLC

\* ---------------------------------------------------------------- bounds
\* Number of account slots of the model (len(login_credentials) <= NumAccounts).
NumAccounts == 2
\* Seconds by which the clock advances during one asyncio.sleep(1) of the
\* countdown in the runs of Spec and MainSpec (asyncio.sleep returns no earlier
\* than asked; a late wake-up keeps the countdown of 600..780 seconds short).
CoarseSleep == 400
\* random.uniform(1.0, 1.3) is sampled on the grid 1.0 + 0.3 * k / GridSteps,
\* k = 0..GridSteps.
GridSteps == 2
\* Transport failures the network produces in one run of MainSpec (in Spec every
\* attempt of every request may fail).
MainFailBudget == 1
\* The delay settings generate_delay is called with on its own: the integers
\* -MaxDelayInt..MaxDelayInt and the strings of at most MaxDelayLen characters.
MaxDelayInt == 3
MaxDelayLen == 3

\* ------------------------------------------------------ program constants
DEFAULT_RETRY_COUNT == 3
DEFAULT_RETRY_DELAY == 2
WaitBase == 600
RunningTimeBase == 601
MileageBase == 2001
Pace == 301
\* line 252: the factor 2000.4117647058823533 of step_count is the double
\* nearest to 34007 / 17.
StepCountNum == 34007
StepCountDen == 17
PassPoint == 3
MulLoTenths == 10
MulHiTenths == 13
VerifyPass == -1
VerifyStale == -2
CodeOk == 1

Acc == 1..NumAccounts

\* ------------------------------------------------------- Python values
\* None, as the value of a local variable that otherwise holds a str.
None == "<None>"
\* `not v` for v a str or None.
Falsy(v) == v = None \/ v = ""

\* A JSON scalar as found under data.id / data.record_id.
JNull == [t |-> "null", n |-> 0, s |-> ""]
JInt(k) == [t |-> "int", n |-> k, s |-> ""]
JStr(x) == [t |-> "str", n |-> 0, s |-> x]

Digits == <<"0", "1", "2", "3", "4", "5", "6", "7", "8", "9">>

RECURSIVE NatStr(_)
NatStr(k) == IF k < 10 THEN Digits[k + 1] ELSE NatStr(k \div 10) \o Digits[(k % 10) + 1]

\* str(v) of Python for a JSON scalar: str(None) is the text "None".
PyStr(j) ==
  CASE j.t = "null" -> "None"
    [] j.t = "int" -> IF j.n < 0 THEN "-" \o NatStr(0 - j.n) ELSE NatStr(j.n)
    [] j.t = "str" -> j.s

\* `not v` for a JSON scalar (None, 0 and "" are falsy).
JFalsy(j) == j.t = "null" \/ (j.t = "int" /\ j.n = 0) \/ (j.t = "str" /\ j.s = "")

\* ------------------------------------------------------- generate_delay
\* A delay setting: a JSON int, a JSON string (sequence of characters), the
\* float Infinity (json.load accepts it), or another JSON value (null, list).
DInt(k) == [t |-> "int", n |-> k, s |-> <<>>]
DStr(cs) == [t |-> "str", n |-> 0, s |-> cs]
DInf == [t |-> "inf", n |-> 0, s |-> <<>>]
DOther == [t |-> "other", n |-> 0, s |-> <<>>]

HasDash(cs) == \E i \in 1..Len(cs) : cs[i] = "-"

\* str.split("-"): the pieces between the dashes, empty pieces included.
RECURSIVE SplitDash(_)
SplitDash(cs) ==
  IF ~HasDash(cs) THEN <<cs>>
  ELSE LET i == CHOOSE k \in 1..Len(cs) : cs[k] = "-" /\ \A j \in 1..(k - 1) : cs[j] # "-"
       IN <<SubSeq(cs, 1, i - 1)>> \o SplitDash(SubSeq(cs, i + 1, Len(cs)))

IsDigit(c) == \E d \in 1..10 : Digits[d] = c
DigitVal(c) == (CHOOSE d \in 1..10 : Digits[d] = c) - 1

RECURSIVE StripSpaces(_)
StripSpaces(cs) ==
  IF cs = <<>> THEN cs
  ELSE IF Head(cs) = " " THEN StripSpaces(Tail(cs))
  ELSE IF cs[Len(cs)] = " " THEN StripSpaces(SubSeq(cs, 1, Len(cs) - 1))
  ELSE cs

RECURSIVE DigitsVal(_, _)
DigitsVal(cs, acc) ==
  IF cs = <<>> THEN acc ELSE DigitsVal(Tail(cs), 10 * acc + DigitVal(Head(cs)))

\* int(str): surrounding blanks, an optional sign, then one or more digits;
\* anything else raises ValueError (ok = FALSE).
PyInt(cs) ==
  LET b == StripSpaces(cs)
      signed == b # <<>> /\ Head(b) \in {"-", "+"}
      ds == IF signed THEN Tail(b) ELSE b
      good == ds # <<>> /\ \A i \in 1..Len(ds) : IsDigit(ds[i])
  IN IF ~good THEN [ok |-> FALSE, n |-> 0]
     ELSE [ok |-> TRUE, n |-> IF signed /\ Head(b) = "-" THEN 0 - DigitsVal(ds, 0) ELSE DigitsVal(ds, 0)]

\* The set of outcomes of generate_delay(delay_setting): raised = TRUE is an
\* exception that the function does not catch (OverflowError of int(inf)).
generate_delay(d) ==
  IF d.t = "str" /\ HasDash(d.s)
  THEN LET parts == SplitDash(d.s)
       IN IF Len(parts) # 2 THEN {[raised |-> FALSE, n |-> 0]}
          ELSE LET lo == PyInt(parts[1])
                   hi == PyInt(parts[2])
               IN IF ~lo.ok \/ ~hi.ok \/ lo.n > hi.n THEN {[raised |-> FALSE, n |-> 0]}
                  ELSE {[raised |-> FALSE, n |-> r] : r \in lo.n..hi.n}
  ELSE CASE d.t = "int" -> {[raised |-> FALSE, n |-> d.n]}
         [] d.t = "str" -> LET p == PyInt(d.s) IN {[raised |-> FALSE, n |-> IF p.ok THEN p.n ELSE 0]}
         [] d.t = "inf" -> {[raised |-> TRUE, n |-> 0]}
         [] OTHER -> {[raised |-> FALSE, n |-> 0]}

\* The delay settings the accounts of the model are configured with.
DelaySettings ==
  { DInt(0), DInt(2), DStr(<<"0">>), DStr(<<"0", "-", "2">>), DStr(<<"2", "-", "0">>),
    DStr(<<"-", "1">>), DStr(<<"x">>), DOther, DInf }

\* ------------------------------------------------------------ responses
\* What api_request returns: None, or the decoded JSON object of the response.
\* set_cookie is the sessionid the response sets in the session's cookie jar
\* ("" when it sets none); absent keys read as by dict.get.
NoneResp ==
  [kind |-> "None", empty |-> FALSE, message |-> "", code |-> 0, data |-> "missing",
   id |-> JNull, record_id |-> JNull, set_cookie |-> ""]
EmptyDict == [NoneResp EXCEPT !.kind = "dict", !.empty = TRUE]
Dict == [NoneResp EXCEPT !.kind = "dict"]

\* `not response`
NotResp(v) == v.kind = "None" \/ v.empty

SuccessMessage == "ok"
SubjectId(a) == JInt(40 + a)
Token(k) == IF k = 1 THEN "tok1" ELSE "tok2"

LoginResponses(a, k) ==
  {EmptyDict, [Dict EXCEPT !.message = "bad"], [Dict EXCEPT !.message = "bad", !.set_cookie = Token(k)]}
  \cup {[Dict EXCEPT !.message = SuccessMessage, !.set_cookie = c, !.data = d] :
          c \in {"", Token(k)}, d \in {"missing", "null"}}
  \cup {[Dict EXCEPT !.message = SuccessMessage, !.set_cookie = c, !.data = "dict", !.id = i] :
          c \in {"", Token(k)}, i \in {JNull, JStr(""), SubjectId(a)}}

VerifyResponses == {EmptyDict} \cup {[Dict EXCEPT !.code = c] : c \in {VerifyPass, VerifyStale, 0}}

CreateResponses ==
  {EmptyDict, Dict, [Dict EXCEPT !.data = "null"]}
  \cup {[Dict EXCEPT !.data = "dict", !.record_id = r] : r \in {JNull, JStr(""), JInt(7)}}

SubmitResponses == {EmptyDict} \cup {[Dict EXCEPT !.code = c] : c \in {CodeOk, 0}}

StatsResponses ==
  {[Dict EXCEPT !.code = 0]} \cup {[Dict EXCEPT !.code = CodeOk, !.data = d] : d \in {"null", "dict"}}

Endpoint(site) ==
  CASE site \in {"login1", "login2"} -> "login"
    [] site \in {"verify1", "verify2"} -> "verify"
    [] site = "create" -> "create_line"
    [] site = "submit" -> "update_record"
    [] site \in {"stats1", "stats2"} -> "running_data"
    [] OTHER -> "none"

CallSites == {"login1", "verify1", "login2", "verify2", "create", "stats1", "submit", "stats2"}

Responses(a, site) ==
  CASE site = "login1" -> LoginResponses(a, 1)
    [] site = "login2" -> LoginResponses(a, 2)
    [] site \in {"verify1", "verify2"} -> VerifyResponses
    [] site = "create" -> CreateResponses
    [] site = "submit" -> SubmitResponses
    [] site \in {"stats1", "stats2"} -> StatsResponses

\* ------------------------------------------------------ credential store
\* One cache file per phone: absent, or the saved sessid and stuid.
Absent == [exists |-> FALSE, sessid |-> "", stuid |-> ""]
Cred(s, u) == [exists |-> TRUE, sessid |-> s, stuid |-> u]

\* Mutant of cache_file: the name of the file does not depend on the phone.
cache_file_Shared(a) == 1

\* lines 145 and 157: the cache file of the phone of account a,
\* <phone>_credentials.json; the accounts of the list have distinct phones, so
\* the file is named by the account.
cache_file(a) == a

\* save_credentials_to_cache(phone, sessid, stuid): the new content of the file.
save_credentials_to_cache(sessid_, stuid_) == Cred(sessid_, stuid_)

\* load_credentials_from_cache(phone): the (sessid, stuid) the workflow reads,
\* None for both when there is no file.
load_credentials_from_cache(entry) ==
  IF entry.exists THEN [sessid |-> entry.sessid, stuid |-> entry.stuid]
  ELSE [sessid |-> None, stuid |-> None]

InitialStores(a) ==
  {Absent, Cred("", ""), Cred("cached", ""), Cred("cached", PyStr(SubjectId(a)))}

\* --------------------------------------------------------- login_account
\* Mutant of login_account: the message of the response is not compared.
login_account_AnyMessage(v, jar) ==
  IF NotResp(v) \/ Falsy(jar)
  THEN [raised |-> FALSE, sessid |-> None, stuid |-> None]
  ELSE IF v.data = "null"
  THEN [raised |-> TRUE, sessid |-> None, stuid |-> None]
  ELSE LET stuid_ == PyStr(IF v.data = "dict" THEN v.id ELSE JNull)
       IN IF Falsy(stuid_)
          THEN [raised |-> FALSE, sessid |-> None, stuid |-> None]
          ELSE [raised |-> FALSE, sessid |-> jar, stuid |-> stuid_]

\* The value login_account returns for the value v of api_request and the
\* cookie jar of the session after the response: raised = TRUE when
\* response.get('data', {}).get('id') is applied to a null data payload.
login_account(v, jar) ==
  IF NotResp(v) \/ v.message # SuccessMessage
  THEN [raised |-> FALSE, sessid |-> None, stuid |-> None]
  ELSE IF Falsy(jar)
  THEN [raised |-> FALSE, sessid |-> None, stuid |-> None]
  ELSE IF v.data = "null"
  THEN [raised |-> TRUE, sessid |-> None, stuid |-> None]
  ELSE LET stuid_ == PyStr(IF v.data = "dict" THEN v.id ELSE JNull)
       IN IF Falsy(stuid_)
          THEN [raised |-> FALSE, sessid |-> None, stuid |-> None]
          ELSE [raised |-> FALSE, sessid |-> jar, stuid |-> stuid_]

\* get_running_data: TRUE when it raises (data.get on a null data payload);
\* otherwise it only logs.
get_running_data_raises(v) == ~NotResp(v) /\ v.code = CodeOk /\ v.data = "null"

\* --------------------------------------------------- generate_random_run_data
\* The wait multiplier of grid index k as the fraction MulNum(k) / MulDenom.
MulDenom == MulLoTenths * GridSteps
MulNum(k) == MulLoTenths * GridSteps + (MulHiTenths - MulLoTenths) * k

\* int(c * wait_multiplier)
ScaledInt(c, k) == (c * MulNum(k)) \div MulDenom

\* Mutant of generate_random_run_data: the data are not scaled.
generate_random_run_data_Unscaled(k) ==
  [running_time |-> RunningTimeBase, mileage |-> MileageBase,
   step_count |-> [num |-> StepCountNum, den |-> StepCountDen], pace |-> Pace]

\* step_count is the product as a fraction (the float product rounds it).
generate_random_run_data(k) ==
  [running_time |-> ScaledInt(RunningTimeBase, k), mileage |-> ScaledInt(MileageBase, k),
   step_count |-> [num |-> StepCountNum * MulNum(k), den |-> StepCountDen * MulDenom],
   pace |-> Pace]

\* ================================================================ state
VARIABLES
  login_credentials,  \* main: [valid, n], what load_account_config returned
  main_pc,            \* main: "start", "gather" (awaiting asyncio.gather), "exit"
  summary,            \* main: the counters and how often the summary was logged
  wf,                 \* per account: the coroutine of run_test_for_account
  store,              \* per account: the cache file <phone>_credentials.json
  sleep_len,          \* seconds the clock advances during one asyncio.sleep(1)
  fail_budget,        \* transport failures the network still produces (-1: any)
  history,            \* whether trace and last_call are kept (they are no program state)
  delay_call          \* one call of generate_delay on its own: its argument and result

vars == <<login_credentials, main_pc, summary, wf, store, sleep_len, fail_budget, history, delay_call>>

NoCall ==
  [site |-> "none", attempts |-> 0, slept |-> <<>>, responses |-> 0, ret |-> "none",
   resp |-> NoneResp]
NoPayload ==
  [id |-> None, student_id |-> None, record_id |-> "", running_time |-> 0,
   mileage |-> 0, step_count |-> [num |-> 0, den |-> 1], pace |-> 0, pass_point |-> 0]

\* The coroutine before it is created. pc is the suspension point; retries,
\* sleeping are api_request's loop. The other fields record what happened
\* (cached_credentials, last_call, trace and saves only when history is set):
\* cached_credentials is what line 320 read; attempts, slept, responses are the
\* requests sent, the sleeps and the responses received of the call in
\* progress; last_call is the last completed call with the value it returned;
\* trace lists the completed calls, each with the code and the record id of
\* what it returned; saves counts the writes of the cache file; faulted tells
\* whether the except clause of line 460 was taken.
NewWf ==
  [pc |-> "unused", retries |-> 0, sleeping |-> FALSE, attempts |-> 0, slept |-> <<>>,
   responses |-> 0, cached_credentials |-> [sessid |-> None, stuid |-> None], saves |-> 0,
   jar |-> "", sessid |-> None, stuid |-> None, cookie |-> None, sent |-> "",
   payload2_student_id |-> None, record_id |-> JNull,
   mult |-> 0, wait_time |-> 0, elapsed |-> 0, payload3 |-> NoPayload,
   result |-> "pending", faulted |-> FALSE, trace |-> <<>>, last_call |-> NoCall]

NoSummary ==
  [emitted |-> 0, total |-> 0, success_count |-> 0, fail_count |-> 0, error_count |-> 0]

\* The cache directory at start: any content for a configured account.
InitialStore(n) ==
  {f \in [Acc -> {Absent} \cup UNION {InitialStores(a) : a \in Acc}] :
     \A a \in Acc : IF a <= n THEN f[a] \in InitialStores(a) ELSE f[a] = Absent}

\* No call of generate_delay on its own is under way.
NoDelayCall == [pc |-> "none", delay_setting |-> DOther, delay |-> 0]

InitCommon ==
  /\ main_pc = "start"
  /\ delay_call = NoDelayCall
  /\ summary = NoSummary
  /\ wf = [a \in Acc |-> NewWf]
  /\ store \in InitialStore(login_credentials.n)

\* One configured account and a network whose every attempt may fail.
Init ==
  /\ login_credentials = [valid |-> TRUE, n |-> 1]
  /\ InitCommon
  /\ sleep_len = CoarseSleep
  /\ fail_budget = -1
  /\ history = TRUE

\* Any account list the slots allow (or an unreadable configuration), a
\* network that fails MainFailBudget times; only the program state is kept.
MainInit ==
  /\ login_credentials \in {[valid |-> FALSE, n |-> 0]} \cup {[valid |-> TRUE, n |-> k] : k \in 0..NumAccounts}
  /\ InitCommon
  /\ sleep_len = CoarseSleep
  /\ fail_budget = MainFailBudget
  /\ history = FALSE

\* One configured account, a countdown whose every asyncio.sleep(1) lasts
\* exactly one second or CoarseSleep seconds, a network that fails
\* MainFailBudget times; only the program state is kept.
WaitInit ==
  /\ login_credentials = [valid |-> TRUE, n |-> 1]
  /\ InitCommon
  /\ sleep_len \in {1, CoarseSleep}
  /\ fail_budget = MainFailBudget
  /\ history = FALSE

\* ============================================================ api_request
\* Mutant of RetriesExhausted: the last retry is given up one attempt early.
RetriesExhausted_OneEarly(retries) == retries >= DEFAULT_RETRY_COUNT

\* line 216: `if retries > max_retries` after the increment of line 215.
RetriesExhausted(retries) == retries > DEFAULT_RETRY_COUNT

\* line 220: wait_time = DEFAULT_RETRY_DELAY * retries
RetryWait(retries) == DEFAULT_RETRY_DELAY * retries

\* The sessionid cookie a request of the call site carries: login_account
\* passes no headers, so its request has the cookie of the session's jar only
\* (none before the first login of the session); the other requests have the
\* cookie header of lines 340 and 360.
RequestCookie(w, site) ==
  IF Endpoint(site) = "login" THEN w.jar
  ELSE IF w.cookie = None THEN "" ELSE w.cookie

\* api_request is entered at a call site: retries = 0 and the first attempt
\* is sent (lines 205-213).
IssueRequest(w, site) ==
  [w EXCEPT !.pc = site, !.retries = 0, !.sleeping = FALSE, !.attempts = 1, !.slept = <<>>,
            !.responses = 0, !.sent = RequestCookie(w, site)]

\* return of run_test_for_account
Finish(w, res) == [w EXCEPT !.pc = "done", !.result = res]

\* lines 460-462: an exception raised inside the try block is logged and the
\* coroutine returns False.
Fault(w) == [Finish(w, "False") EXCEPT !.faulted = TRUE]

\* ==================================================== run_test_for_account
\* Each operator below is the code that runs when the awaited call returns v,
\* up to the next await; it yields the coroutine w and the cache file st.

\* The count of cache writes after one more write.
Saved(w) == IF history THEN w.saves + 1 ELSE w.saves

\* Mutant of EnterTry: the cached credential is read but not used.
EnterTry_IgnoreCache(w, st) ==
  LET c == load_credentials_from_cache(st)
      w1 == [w EXCEPT !.cached_credentials = IF history THEN c ELSE w.cached_credentials]
  IN [w |-> IssueRequest(w1, "login1"), st |-> st]

\* lines 318-344: load the cache; log in when sessid or stuid is missing,
\* else attach the cached sessid and ask for verification.
EnterTry(w, st) ==
  LET c == load_credentials_from_cache(st)
      w1 == [w EXCEPT !.cached_credentials = IF history THEN c ELSE w.cached_credentials,
                      !.sessid = c.sessid, !.stuid = c.stuid]
  IN IF Falsy(c.sessid) \/ Falsy(c.stuid)
     THEN [w |-> IssueRequest(w1, "login1"), st |-> st]
     ELSE [w |-> IssueRequest([w1 EXCEPT !.cookie = c.sessid], "verify1"), st |-> st]

\* lines 332-344 (first login) and 354-362 (re-login): the code after
\* `await login_account(...)`, login_account included.
AfterLogin(w, st, v, verify_site) ==
  LET r == login_account(v, w.jar)
      w1 == [w EXCEPT !.sessid = r.sessid, !.stuid = r.stuid]
  IN IF r.raised THEN [w |-> Fault(w), st |-> st]
     ELSE IF Falsy(r.sessid) \/ Falsy(r.stuid) THEN [w |-> Finish(w1, "False"), st |-> st]
     ELSE [w |-> IssueRequest([w1 EXCEPT !.cookie = r.sessid, !.saves = Saved(w)], verify_site),
           st |-> save_credentials_to_cache(r.sessid, r.stuid)]

\* lines 372-399: payload2 carries stuid; the createLine request is sent.
CreateRequest(w) == IssueRequest([w EXCEPT !.payload2_student_id = w.stuid], "create")

\* Mutant of AfterVerify1: every result other than -1 clears the cache file;
\* only -2 is followed by the re-login.
AfterVerify1_ClearOnFailure(w, st, v) ==
  IF ~NotResp(v) /\ v.code = VerifyPass THEN [w |-> CreateRequest(w), st |-> st]
  ELSE IF ~NotResp(v) /\ v.code = VerifyStale
  THEN [w |-> IssueRequest([w EXCEPT !.saves = Saved(w)], "login2"),
        st |-> save_credentials_to_cache("", "")]
  ELSE [w |-> Finish([w EXCEPT !.saves = Saved(w)], "False"),
        st |-> save_credentials_to_cache("", "")]

\* lines 345-370: the first verification result.
AfterVerify1(w, st, v) ==
  IF ~NotResp(v) /\ v.code = VerifyPass THEN [w |-> CreateRequest(w), st |-> st]
  ELSE IF ~NotResp(v) /\ v.code = VerifyStale
  THEN [w |-> IssueRequest([w EXCEPT !.saves = Saved(w)], "login2"),
        st |-> save_credentials_to_cache("", "")]
  ELSE [w |-> Finish(w, "False"), st |-> st]

\* Mutant of AfterVerify2: the second result is handled like the first one, so
\* a second -2 logs in again.
AfterVerify2_ReloginAgain(w, st, v) == AfterVerify1(w, st, v)

\* lines 363-367: the verification result after the re-login.
AfterVerify2(w, st, v) ==
  IF ~NotResp(v) /\ v.code = VerifyPass THEN [w |-> CreateRequest(w), st |-> st]
  ELSE [w |-> Finish(w, "False"), st |-> st]

\* Mutant of AfterCreate: any response lets the run go on, with the record id
\* it has or None.
AfterCreate_NoRecordCheck(w, st, v) ==
  IF NotResp(v) THEN [w |-> Finish(w, "False"), st |-> st]
  ELSE [w |-> IssueRequest([w EXCEPT !.record_id = IF v.data = "dict" THEN v.record_id ELSE JNull],
                           "stats1"),
        st |-> st]

\* lines 400-409: the record id is required; then the first statistics fetch.
AfterCreate(w, st, v) ==
  IF NotResp(v) THEN [w |-> Finish(w, "False"), st |-> st]
  ELSE IF v.data = "null" THEN [w |-> Fault(w), st |-> st]
  ELSE LET rid == IF v.data = "dict" THEN v.record_id ELSE JNull
       IN IF JFalsy(rid) THEN [w |-> Finish(w, "False"), st |-> st]
          ELSE [w |-> IssueRequest([w EXCEPT !.record_id = rid], "stats1"), st |-> st]

\* lines 430-448: payload3 from the multiplier of the wait; updateRecord is sent.
SubmitRequest(w) ==
  LET d == generate_random_run_data(w.mult)
      p == [id |-> w.stuid, student_id |-> w.stuid, record_id |-> PyStr(w.record_id),
            running_time |-> d.running_time, mileage |-> d.mileage,
            step_count |-> d.step_count, pace |-> d.pace,
            pass_point |-> PassPoint]
  IN IssueRequest([w EXCEPT !.payload3 = p], "submit")

\* lines 409-422: get_running_data returns; the multiplier (grid index k) is
\* sampled and the countdown starts.
AfterStats1(w, st, v, k) ==
  IF get_running_data_raises(v) THEN [w |-> Fault(w), st |-> st]
  ELSE LET w1 == [w EXCEPT !.mult = k, !.wait_time = ScaledInt(WaitBase, k), !.elapsed = 0]
       IN IF 0 < w1.wait_time THEN [w |-> [w1 EXCEPT !.pc = "wait"], st |-> st]
          ELSE [w |-> SubmitRequest(w1), st |-> st]

\* Mutant of AfterSubmit: any response counts as accepted.
AfterSubmit_AnyCode(w, st, v) ==
  IF NotResp(v) THEN [w |-> Finish(w, "False"), st |-> st]
  ELSE [w |-> IssueRequest(w, "stats2"), st |-> st]

\* lines 449-456: the submission result; then the second statistics fetch.
AfterSubmit(w, st, v) ==
  IF NotResp(v) \/ v.code # CodeOk THEN [w |-> Finish(w, "False"), st |-> st]
  ELSE [w |-> IssueRequest(w, "stats2"), st |-> st]

\* lines 456-459: get_running_data returns; return True.
AfterStats2(w, st, v) ==
  IF get_running_data_raises(v) THEN [w |-> Fault(w), st |-> st]
  ELSE [w |-> Finish(w, "True"), st |-> st]

Continue(w, st, v, k) ==
  CASE w.pc = "login1" -> AfterLogin(w, st, v, "verify1")
    [] w.pc = "login2" -> AfterLogin(w, st, v, "verify2")
    [] w.pc = "verify1" -> AfterVerify1(w, st, v)
    [] w.pc = "verify2" -> AfterVerify2(w, st, v)
    [] w.pc = "create" -> AfterCreate(w, st, v)
    [] w.pc = "stats1" -> AfterStats1(w, st, v, k)
    [] w.pc = "submit" -> AfterSubmit(w, st, v)
    [] w.pc = "stats2" -> AfterStats2(w, st, v)

\* ================================================================ actions
\* line 412: the grid indices random.uniform can yield where it is called
\* (after the first statistics fetch); no sample is drawn elsewhere.
Samples(site) == IF site = "stats1" THEN 0..GridSteps ELSE {0}

Configured(a) == login_credentials.valid /\ a <= login_credentials.n

\* Mutant of AtCall: the sleeps block the event loop (time.sleep), so a
\* pending request makes no progress while another workflow sleeps.
AtCall_LoopBlocked(a) ==
  /\ wf[a].pc \in CallSites /\ ~wf[a].sleeping
  /\ \A b \in Acc \ {a} : wf[b].pc \notin {"delay", "wait"} /\ ~wf[b].sleeping

\* The request of a's call in progress is pending (not in a backoff sleep).
AtCall(a) == wf[a].pc \in CallSites /\ ~wf[a].sleeping

\* What the trace keeps of a completed call: the sessionid cookie its requests
\* carried, the code of a verification or submission response, the record id
\* of a route creation response, the sessionid and the subject id a login
\* response gave, as dict.get reads them (None and {} have none of them).
TraceEntry(site, v, sent) ==
  [site |-> site, none |-> v.kind = "None", sent |-> sent,
   code |-> IF site \in {"verify1", "verify2", "submit"} THEN v.code ELSE 0,
   record_id |-> IF site = "create" /\ v.data = "dict" THEN v.record_id ELSE JNull,
   set_cookie |-> v.set_cookie,
   id |-> IF Endpoint(site) = "login" /\ v.data = "dict" THEN v.id ELSE JNull]

\* api_request returns v to its caller (how: "response", "exhausted",
\* "exception"), and the caller runs on to its next await.
Return(a, v, how, k) ==
  LET w == wf[a]
      w0 == [w EXCEPT !.jar = IF v.set_cookie # "" THEN v.set_cookie ELSE w.jar,
                      !.trace = IF history THEN Append(w.trace, TraceEntry(w.pc, v, w.sent)) ELSE w.trace,
                      !.last_call = IF history
                                    THEN [site |-> w.pc, attempts |-> w.attempts,
                                          slept |-> w.slept,
                                          responses |-> w.responses + (IF how = "response" THEN 1 ELSE 0),
                                          ret |-> how, resp |-> v]
                                    ELSE w.last_call]
      out == Continue(w0, store[cache_file(a)], v, k)
  IN /\ wf' = [wf EXCEPT ![a] = out.w]
     /\ store' = [store EXCEPT ![cache_file(a)] = out.st]

\* lines 464-483: main loads the configuration, creates one task per account
\* and awaits asyncio.gather; it returns at once on a missing or empty list.
MainStart ==
  /\ main_pc = "start"
  /\ IF login_credentials.valid /\ login_credentials.n > 0
     THEN /\ main_pc' = "gather"
          /\ wf' = [a \in Acc |-> IF Configured(a) THEN [wf[a] EXCEPT !.pc = "ready"] ELSE wf[a]]
     ELSE /\ main_pc' = "exit"
          /\ wf' = wf
  /\ UNCHANGED <<login_credentials, summary, store, sleep_len, fail_budget, history, delay_call>>

\* lines 299-344: the task starts: the delay is resolved (an exception of
\* generate_delay leaves the coroutine, outside the try block); it sleeps for a
\* positive delay, and otherwise enters the try block.
Start(a) ==
  /\ main_pc = "gather"
  /\ wf[a].pc = "ready"
  /\ \E d \in DelaySettings : \E r \in generate_delay(d) :
       IF r.raised THEN wf' = [wf EXCEPT ![a] = Finish(wf[a], "Exception")] /\ store' = store
       ELSE IF r.n > 0 THEN wf' = [wf EXCEPT ![a].pc = "delay"] /\ store' = store
       ELSE LET out == EnterTry(wf[a], store[cache_file(a)])
            IN wf' = [wf EXCEPT ![a] = out.w] /\ store' = [store EXCEPT ![cache_file(a)] = out.st]
  /\ UNCHANGED <<login_credentials, main_pc, summary, sleep_len, fail_budget, history, delay_call>>

\* line 311: the start delay has elapsed; lines 315-344 follow.
DelayWake(a) ==
  /\ wf[a].pc = "delay"
  /\ LET out == EnterTry(wf[a], store[cache_file(a)])
     IN wf' = [wf EXCEPT ![a] = out.w] /\ store' = [store EXCEPT ![cache_file(a)] = out.st]
  /\ UNCHANGED <<login_credentials, main_pc, summary, sleep_len, fail_budget, history, delay_call>>

\* Mutant of Response: a response without a recognised code is handled like a
\* transport failure and the request is sent again.
Response_RetryErrorPayload(a) ==
  /\ AtCall(a)
  /\ \E v \in Responses(a, wf[a].pc) : \E k \in Samples(wf[a].pc) :
       IF v.code = 0 /\ ~RetriesExhausted(wf[a].retries + 1)
       THEN /\ wf' = [wf EXCEPT ![a] = [wf[a] EXCEPT !.retries = wf[a].retries + 1,
                                                     !.sleeping = TRUE,
                                                     !.responses = wf[a].responses + 1,
                                                     !.slept = Append(wf[a].slept, RetryWait(wf[a].retries + 1))]]
            /\ store' = store
       ELSE Return(a, v, "response", k)
  /\ UNCHANGED <<login_credentials, main_pc, summary, sleep_len, fail_budget, history, delay_call>>

\* lines 208-213: the pending attempt receives a response; response.json() is
\* returned to the caller.
Response(a) ==
  /\ AtCall(a)
  /\ \E v \in Responses(a, wf[a].pc) : \E k \in Samples(wf[a].pc) : Return(a, v, "response", k)
  /\ UNCHANGED <<login_credentials, main_pc, summary, sleep_len, fail_budget, history, delay_call>>

\* lines 214-222: the pending attempt fails at transport level
\* (aiohttp.ClientError, asyncio.TimeoutError): after the last retry None is
\* returned, otherwise the coroutine sleeps DEFAULT_RETRY_DELAY * retries.
TransportFailure(a) ==
  /\ AtCall(a)
  /\ fail_budget # 0
  /\ fail_budget' = IF fail_budget > 0 THEN fail_budget - 1 ELSE fail_budget
  /\ LET r == wf[a].retries + 1
     IN IF RetriesExhausted(r)
        THEN \E k \in Samples(wf[a].pc) :
               Return(a, NoneResp, "exhausted", k)
        ELSE /\ wf' = [wf EXCEPT ![a] = [wf[a] EXCEPT !.retries = r, !.sleeping = TRUE,
                                                      !.slept = Append(wf[a].slept, RetryWait(r))]]
             /\ store' = store
  /\ UNCHANGED <<login_credentials, main_pc, summary, sleep_len, history, delay_call>>

\* line 222 and back to line 206: the backoff sleep ends and the next attempt
\* is sent.
RetryWake(a) ==
  /\ wf[a].pc \in CallSites
  /\ wf[a].sleeping
  /\ wf' = [wf EXCEPT ![a] = [wf[a] EXCEPT !.sleeping = FALSE, !.attempts = wf[a].attempts + 1]]
  /\ UNCHANGED <<login_credentials, main_pc, summary, store, sleep_len, fail_budget, history, delay_call>>

\* lines 223-225: the pending attempt raises another exception (a body that
\* is no JSON): None is returned without a retry.
OtherException(a) ==
  /\ AtCall(a)
  /\ \E k \in Samples(wf[a].pc) : Return(a, NoneResp, "exception", k)
  /\ UNCHANGED <<login_credentials, main_pc, summary, sleep_len, fail_budget, history, delay_call>>

\* Mutant of WaitTick: the loop stops one second before end_time.
WaitTick_OneShort(a) ==
  /\ wf[a].pc = "wait"
  /\ LET w1 == [wf[a] EXCEPT !.elapsed = wf[a].elapsed + sleep_len]
     IN wf' = [wf EXCEPT ![a] = IF w1.elapsed < w1.wait_time - 1 THEN w1 ELSE SubmitRequest(w1)]
  /\ UNCHANGED <<login_credentials, main_pc, summary, store, sleep_len, fail_budget, history, delay_call>>

\* lines 419-448: one asyncio.sleep(1) of the countdown ends; the loop goes on
\* while the clock is before end_time, then updateRecord is sent.
WaitTick(a) ==
  /\ wf[a].pc = "wait"
  /\ LET w1 == [wf[a] EXCEPT !.elapsed = wf[a].elapsed + sleep_len]
     IN wf' = [wf EXCEPT ![a] = IF w1.elapsed < w1.wait_time THEN w1 ELSE SubmitRequest(w1)]
  /\ UNCHANGED <<login_credentials, main_pc, summary, store, sleep_len, fail_budget, history, delay_call>>

\* lines 491-496: the counter a result of gather goes to.
Classify(result) ==
  IF result = "Exception" THEN "error"
  ELSE IF result = "True" THEN "success"
  ELSE "fail"

\* lines 486-496: the counting loop over results[i..n].
RECURSIVE CountResults(_, _, _, _)
RECURSIVE CountResults_DropExceptions(_, _, _, _)

\* Mutant of CountResults: a result that is an exception is skipped.
CountResults_DropExceptions(results, i, n, c) ==
  IF i > n THEN c
  ELSE LET kind == Classify(results[i])
       IN CountResults_DropExceptions(results, i + 1, n,
            [c EXCEPT !.success_count = @ + (IF kind = "success" THEN 1 ELSE 0),
                      !.fail_count = @ + (IF kind = "fail" THEN 1 ELSE 0)])

CountResults(results, i, n, c) ==
  IF i > n THEN c
  ELSE LET kind == Classify(results[i])
       IN CountResults(results, i + 1, n,
            [c EXCEPT !.success_count = @ + (IF kind = "success" THEN 1 ELSE 0),
                      !.fail_count = @ + (IF kind = "fail" THEN 1 ELSE 0),
                      !.error_count = @ + (IF kind = "error" THEN 1 ELSE 0)])

\* Mutant of Summarize: main goes on as soon as one task has finished (as with
\* asyncio.wait(..., return_when=FIRST_COMPLETED)).
Summarize_FirstCompleted ==
  /\ main_pc = "gather"
  /\ \E a \in Acc : Configured(a) /\ wf[a].pc = "done"
  /\ LET n == login_credentials.n
         results == [i \in 1..n |-> wf[i].result]
         c == CountResults(results, 1, n, NoSummary)
     IN summary' = [c EXCEPT !.emitted = summary.emitted + 1, !.total = n]
  /\ main_pc' = "exit"
  /\ UNCHANGED <<login_credentials, wf, store, sleep_len, fail_budget, history, delay_call>>

\* lines 483-503: gather returns when every task has finished; the results are
\* counted and the summary is logged.
Summarize ==
  /\ main_pc = "gather"
  /\ \A a \in Acc : Configured(a) => wf[a].pc = "done"
  /\ LET n == login_credentials.n
         results == [i \in 1..n |-> wf[i].result]
         c == CountResults(results, 1, n, NoSummary)
     IN summary' = [c EXCEPT !.emitted = summary.emitted + 1, !.total = n]
  /\ main_pc' = "exit"
  /\ UNCHANGED <<login_credentials, wf, store, sleep_len, fail_budget, history, delay_call>>

Next ==
  \/ MainStart
  \/ Summarize
  \/ \E a \in Acc :
       \/ Start(a)
       \/ DelayWake(a)
       \/ Response(a)
       \/ TransportFailure(a)
       \/ RetryWake(a)
       \/ OtherException(a)
       \/ WaitTick(a)

Spec == Init /\ [][Next]_vars

MainSpec == MainInit /\ [][Next]_vars

WaitSpec == WaitInit /\ [][Next]_vars

\* The event loop resumes every coroutine that can run: a pending request ends
\* with a response or a transport failure (the session's 30 s timeout), a
\* sleep ends, and gather returns once the tasks are done.
FairSpec == Spec /\ WF_vars(Next)

FairMainSpec == MainSpec /\ WF_vars(Next)

\* ------------------------------------------------- generate_delay on its own
\* The characters of the string settings, and every setting of the bounds.
DelayChars == {"0", "1", "2", "-", " ", "x"}
DelayInputs ==
  {DInt(k) : k \in (0 - MaxDelayInt)..MaxDelayInt}
    \cup {DStr(cs) : cs \in UNION {[1..n -> DelayChars] : n \in 0..MaxDelayLen}}
    \cup {DInf, DOther}

\* line 303: the account's "delay" value is about to be passed to generate_delay.
DelayInit ==
  /\ login_credentials = [valid |-> TRUE, n |-> 1]
  /\ main_pc = "start"
  /\ summary = NoSummary
  /\ wf = [a \in Acc |-> NewWf]
  /\ store = [a \in Acc |-> Absent]
  /\ sleep_len = CoarseSleep
  /\ fail_budget = 0
  /\ history = FALSE
  /\ delay_call \in {[pc |-> "called", delay_setting |-> d, delay |-> 0] : d \in DelayInputs}

\* line 304: delay = generate_delay(delay_setting); the call returns a value
\* or leaves with an exception.
ResolveDelay ==
  /\ delay_call.pc = "called"
  /\ \E r \in generate_delay(delay_call.delay_setting) :
       delay_call' = [delay_call EXCEPT !.pc = IF r.raised THEN "raised" ELSE "returned",
                                        !.delay = r.n]
  /\ UNCHANGED <<login_credentials, main_pc, summary, wf, store, sleep_len, fail_budget, history>>

DelaySpec == DelayInit /\ [][ResolveDelay]_vars

\* ================================================================= claims
\* The endpoints of the api_request calls account a has started, in order:
\* the completed ones and the one in progress.
CallSeq(a) ==
  [i \in 1..Len(wf[a].trace) |-> Endpoint(wf[a].trace[i].site)]
    \o (IF wf[a].pc \in CallSites THEN <<Endpoint(wf[a].pc)>> ELSE <<>>)

\* The positions of CallSeq(a) that are calls of endpoint ep.
CallsOf(a, ep) == {i \in 1..Len(CallSeq(a)) : CallSeq(a)[i] = ep}

\* The completed verification calls of a, and those that returned code c.
Verified(a) == {i \in 1..Len(wf[a].trace) : Endpoint(wf[a].trace[i].site) = "verify"}
VerifiedWith(a, c) == {i \in Verified(a) : ~wf[a].trace[i].none /\ wf[a].trace[i].code = c}
FirstVerify(a, i) == i \in Verified(a) /\ \A j \in Verified(a) : i <= j

Rejected(a) == wf[a].pc = "done" /\ wf[a].result = "False"

\* C1: a first eligibility check that returns -2 is followed by exactly one
\* more login call; when the check after the re-login is not -1, the workflow
\* is rejected with no later call; so at most one login follows a check and at
\* most two checks are made, whatever the service returns.
C1_OneRelogin ==
  \A a \in Acc :
    /\ Cardinality(CallsOf(a, "verify")) <= 2
    /\ \A i \in Verified(a) :
         /\ Cardinality({j \in CallsOf(a, "login") : j > i}) <= 1
         /\ (FirstVerify(a, i) /\ i \in VerifiedWith(a, VerifyStale))
              => /\ Cardinality({j \in CallsOf(a, "login") : j > i}) = 1
                 /\ CallSeq(a)[i + 1] = "login"
         /\ (~FirstVerify(a, i) /\ i \notin VerifiedWith(a, VerifyPass))
              => Rejected(a) /\ Len(CallSeq(a)) = i

\* C1's case: stale twice, one re-login in between, rejected.
C1_Witness ==
  \E a \in Acc :
    /\ Rejected(a)
    /\ Cardinality(VerifiedWith(a, VerifyStale)) = 2
    /\ Cardinality(CallsOf(a, "login")) = 1

UsableCache(a) ==
  ~Falsy(wf[a].cached_credentials.sessid) /\ ~Falsy(wf[a].cached_credentials.stuid)

Entered(a) == wf[a].pc \notin {"unused", "ready", "delay"} /\ wf[a].result # "Exception"

\* C2: with a usable cached credential the first request is the eligibility
\* check, and login is called only after that check returned -2.
C2_CacheSkipsLogin ==
  \A a \in Acc :
    (Entered(a) /\ UsableCache(a))
      => /\ CallSeq(a)[1] = "verify"
         /\ CallsOf(a, "login") # {} => 1 \in VerifiedWith(a, VerifyStale)

\* C2's case: a run from a usable cached credential that reached its end
\* without any login.
C2_Witness ==
  \E a \in Acc :
    /\ UsableCache(a)
    /\ wf[a].pc = "done"
    /\ wf[a].result = "True"
    /\ CallsOf(a, "login") = {}

\* C3: the run returns True only after, in this order, a check that returned
\* -1, a route creation that returned a non-empty record id and a submission
\* that returned code 1; no run with a failed required step returns True.
C3_SuccessOnlyIf ==
  \A a \in Acc :
    wf[a].result = "True"
      => LET t == wf[a].trace
         IN /\ wf[a].pc = "done"
            /\ \E i, j, k \in 1..Len(t) :
                 /\ i < j /\ j < k
                 /\ i \in VerifiedWith(a, VerifyPass)
                 /\ t[j].site = "create" /\ ~t[j].none /\ ~JFalsy(t[j].record_id)
                 /\ t[k].site = "submit" /\ ~t[k].none /\ t[k].code = CodeOk
            /\ \A j \in 1..Len(t) :
                 /\ t[j].site = "create" => ~t[j].none /\ ~JFalsy(t[j].record_id)
                 /\ t[j].site = "submit" => ~t[j].none /\ t[j].code = CodeOk
                 /\ (j \in Verified(a) /\ \A m \in Verified(a) : m <= j)
                      => j \in VerifiedWith(a, VerifyPass)

\* C3's case: a run that returned True after a re-login.
C3_Witness ==
  \E a \in Acc :
    /\ wf[a].result = "True"
    /\ Cardinality(Verified(a)) = 2

\* C4: without a usable cached credential, a login that returns nothing, a
\* message other than the success message or no session token ends the run as
\* rejected: nothing else is requested and the cache file is not written.
C4_LoginFailureStops ==
  \A a \in Acc :
    LET c == wf[a].last_call
    IN (/\ Entered(a) /\ ~UsableCache(a)
        /\ Len(wf[a].trace) = 1 /\ Endpoint(c.site) = "login"
        /\ (c.resp.kind = "None" \/ c.resp.message # SuccessMessage \/ Falsy(wf[a].jar)))
         => /\ Rejected(a)
            /\ CallSeq(a) = <<"login">>
            /\ wf[a].saves = 0
            /\ load_credentials_from_cache(store[a]) = wf[a].cached_credentials

\* C4's case: a first login answered with a session token and another message.
C4_Witness ==
  \E a \in Acc :
    /\ ~UsableCache(a)
    /\ Len(wf[a].trace) = 1
    /\ wf[a].last_call.site = "login1"
    /\ wf[a].last_call.ret = "response"
    /\ wf[a].last_call.resp.message # SuccessMessage
    /\ ~Falsy(wf[a].jar)
    /\ Rejected(a)

\* A login response with the success message and a session token whose data
\* payload carries no subject id (no data, no id, or an empty id).
NoSubjectId(a) ==
  LET c == wf[a].last_call
  IN /\ Endpoint(c.site) = "login"
     /\ c.ret = "response"
     /\ c.resp.message = SuccessMessage
     /\ ~Falsy(wf[a].jar)
     /\ \/ c.resp.data = "missing"
        \/ c.resp.data = "dict" /\ c.resp.id \in {JNull, JStr("")}

\* C5: a login with the success message and a session token but no subject id
\* is a failed authentication: the run is rejected and its token is not saved.
C5_NoSubjectIdRejected ==
  \A a \in Acc :
    NoSubjectId(a) => Rejected(a) /\ ~(store[a].exists /\ store[a].sessid = wf[a].jar)

\* The trace of a holds an accepted submission.
SubmissionAccepted(a) ==
  \E k \in 1..Len(wf[a].trace) :
    wf[a].trace[k].site = "submit" /\ ~wf[a].trace[k].none /\ wf[a].trace[k].code = CodeOk

\* C6: no result of a statistics fetch changes the outcome: the first fetch
\* never ends the run, and a run whose submission was accepted returns True.
C6_StatsNeverChangeOutcome ==
  \A a \in Acc :
    /\ wf[a].last_call.site = "stats1" => wf[a].pc # "done"
    /\ (wf[a].pc = "done" /\ SubmissionAccepted(a)) => wf[a].result = "True"

ConfiguredAccounts == {a \in Acc : Configured(a)}
ResultsOf(r) == {a \in ConfiguredAccounts : wf[a].result = r}

\* C7: once main has logged the summary, success_count + fail_count +
\* error_count is the number of configured accounts, and every account is in
\* the one counter of its result.
C7_CountsAddUp ==
  summary.emitted > 0
    => /\ summary.success_count + summary.fail_count + summary.error_count = login_credentials.n
       /\ summary.total = login_credentials.n
       /\ summary.success_count = Cardinality(ResultsOf("True"))
       /\ summary.fail_count = Cardinality(ResultsOf("False"))
       /\ summary.error_count = Cardinality(ResultsOf("Exception"))

\* C7's case: a summary over two accounts, one a success, one a raised fault.
C7_Witness ==
  /\ summary.emitted = 1
  /\ login_credentials.n >= 2
  /\ summary.success_count >= 1
  /\ summary.error_count >= 1

\* C8: an account whose workflow met an unexpected fault is counted as a fault
\* and not as a rejection.
C8_FaultsCountedAsErrors ==
  summary.emitted > 0
    => /\ summary.error_count =
            Cardinality({a \in ConfiguredAccounts : wf[a].faulted \/ wf[a].result = "Exception"})
       /\ summary.fail_count = Cardinality({a \in ResultsOf("False") : ~wf[a].faulted})

Backoff(n) == [k \in 1..n |-> DEFAULT_RETRY_DELAY * k]

\* The retry discipline in every state: the k-th failed attempt is followed by
\* a sleep of DEFAULT_RETRY_DELAY * k; a call that returns None on transport
\* failures has made DEFAULT_RETRY_COUNT + 1 attempts and as many sleeps as
\* retries, none after the last failure; a response is returned as it is.
C9_Discipline ==
  \A a \in Acc :
    LET w == wf[a]
        c == wf[a].last_call
    IN /\ w.attempts <= DEFAULT_RETRY_COUNT + 1
       /\ w.pc \in CallSites
            => /\ w.slept = Backoff(w.retries)
               /\ w.attempts = IF w.sleeping THEN w.retries ELSE w.retries + 1
       /\ c.ret = "exhausted"
            => /\ c.attempts = DEFAULT_RETRY_COUNT + 1
               /\ c.slept = Backoff(DEFAULT_RETRY_COUNT)
               /\ c.resp = NoneResp
       /\ c.ret = "response"
            => /\ c.resp \in Responses(a, c.site)
               /\ c.slept = Backoff(c.attempts - 1)

\* Every call of api_request returns: calls are made one after the other, so
\* a run with a call in progress reaches its end only if that call and every
\* later one returns.
C9_Terminates == \A a \in Acc : (wf[a].pc \in CallSites) ~> (wf[a].pc = "done")

\* C9: api_request makes at most DEFAULT_RETRY_COUNT + 1 attempts with sleeps
\* of DEFAULT_RETRY_DELAY * k in between, returns None after the last failure
\* without a sleep, returns a response at once, and always returns.
C9_RetryDiscipline == []C9_Discipline /\ C9_Terminates

\* C9's case: a call that failed on every attempt.
C9_Witness ==
  \E a \in Acc :
    /\ wf[a].last_call.ret = "exhausted"
    /\ wf[a].last_call.attempts = 4
    /\ wf[a].last_call.slept = <<2, 4, 6>>

BusinessEndpoints == {"verify", "create_line", "update_record"}

\* C10: a response is never retried: no call goes on after a response, a call
\* that returns a response has received exactly that one, on its last attempt;
\* and a business rejection ends the run with no further request (the route
\* creation and the submission are then called once).
C10_ResponsesNotRetried ==
  \A a \in Acc :
    LET w == wf[a]
        c == wf[a].last_call
    IN /\ w.pc \in CallSites => w.responses = 0
       /\ c.ret = "response"
            => /\ c.responses = 1
               /\ c.resp.kind = "dict"
               /\ c.attempts = Len(c.slept) + 1
       /\ (Rejected(a) /\ ~w.faulted /\ c.ret = "response" /\ Endpoint(c.site) \in BusinessEndpoints)
            => /\ Len(CallSeq(a)) = Len(w.trace)
               /\ w.trace[Len(w.trace)].site = c.site
               /\ Endpoint(c.site) # "verify" => Cardinality(CallsOf(a, Endpoint(c.site))) = 1

\* C10's case: a submission answered with an error code on the retry after
\* one transport failure, and the run rejected.
C10_Witness ==
  \E a \in Acc :
    /\ Rejected(a)
    /\ wf[a].last_call.site = "submit"
    /\ wf[a].last_call.ret = "response"
    /\ wf[a].last_call.resp.code # CodeOk
    /\ wf[a].last_call.attempts = 2

\* A string setting that is the decimal numeral of an integer (as int reads
\* it), and one that is a range lo-hi of two such numerals with lo <= hi.
IsFixedSpec(cs) == PyInt(cs).ok
IsRangeSpec(cs) ==
  /\ HasDash(cs)
  /\ Len(SplitDash(cs)) = 2
  /\ PyInt(SplitDash(cs)[1]).ok /\ PyInt(SplitDash(cs)[2]).ok
  /\ PyInt(SplitDash(cs)[1]).n <= PyInt(SplitDash(cs)[2]).n

\* C11: generate_delay returns an integer of lo..hi for a range lo-hi with
\* lo <= hi, exactly the integer for an integer or its decimal string, and 0
\* for every other setting; it never leaves with an exception.
C11_ResolveDelay ==
  LET d == delay_call.delay_setting
      r == delay_call.delay
  IN delay_call.pc \in {"returned", "raised"}
       => /\ delay_call.pc = "returned"
          /\ CASE d.t = "int" -> r = d.n
               [] d.t = "str" /\ IsRangeSpec(d.s) ->
                    PyInt(SplitDash(d.s)[1]).n <= r /\ r <= PyInt(SplitDash(d.s)[2]).n
               [] d.t = "str" /\ ~IsRangeSpec(d.s) /\ IsFixedSpec(d.s) -> r = PyInt(d.s).n
               [] OTHER -> r = 0

\* The submission request of a has been issued (payload3 is built just before).
SubmitIssued(a) == wf[a].payload3 # NoPayload

\* C12: wait_time is floor(600 * wait_multiplier); the submission is not issued
\* before wait_time seconds of the countdown have elapsed, and when every sleep
\* of the countdown lasts exactly one second the workflow goes on after exactly
\* wait_time seconds.
C12_WaitsWaitSeconds ==
  \A a \in Acc :
    LET w == wf[a]
    IN /\ (w.pc = "wait" \/ SubmitIssued(a))
            => /\ w.wait_time * MulDenom <= WaitBase * MulNum(w.mult)
               /\ WaitBase * MulNum(w.mult) < (w.wait_time + 1) * MulDenom
       /\ w.pc = "wait" => ~SubmitIssued(a) /\ w.elapsed < w.wait_time
       /\ SubmitIssued(a)
            => /\ w.elapsed >= w.wait_time
               /\ sleep_len = 1 => w.elapsed = w.wait_time

\* C12's case: the submission is pending after a countdown of one-second
\* sleeps with a multiplier above 1.0.
C12_Witness ==
  \E a \in Acc :
    /\ sleep_len = 1
    /\ wf[a].pc = "submit"
    /\ wf[a].wait_time > WaitBase
    /\ wf[a].elapsed = wf[a].wait_time

NonEmptyList == login_credentials.valid /\ login_credentials.n > 0

\* The summary is logged at most once, and only when every configured
\* account's workflow has ended.
C13_Safe ==
  /\ summary.emitted <= 1
  /\ summary.emitted = 1 => NonEmptyList /\ \A a \in ConfiguredAccounts : wf[a].pc = "done"

\* C13: for a non-empty valid account list the summary is logged exactly once,
\* after every workflow has ended; every workflow ends and the summary is
\* logged in the end, whatever the outcomes.
C13_SummaryOnce ==
  /\ []C13_Safe
  /\ <>[](NonEmptyList => summary.emitted = 1 /\ \A a \in ConfiguredAccounts : wf[a].pc = "done")

\* C13's case: a summary over two accounts, none a success: one rejected, one
\* that raised.
C13_Witness ==
  /\ summary.emitted = 1
  /\ login_credentials.n >= 2
  /\ summary.success_count = 0
  /\ summary.fail_count >= 1
  /\ summary.error_count >= 1

\* The api_request calls account a has started, in order, each with its call
\* site and the sessionid cookie it carries: the completed ones and the one in
\* progress.
Requests(a) ==
  [i \in 1..Len(wf[a].trace) |-> [site |-> wf[a].trace[i].site, sent |-> wf[a].trace[i].sent]]
    \o (IF wf[a].pc \in CallSites THEN <<[site |-> wf[a].pc, sent |-> wf[a].sent]>> ELSE <<>>)

\* The first eligibility check of a is completed call i and returned -2.
StaleAt(a, i) ==
  /\ i \in 1..Len(wf[a].trace)
  /\ wf[a].trace[i].site = "verify1"
  /\ ~wf[a].trace[i].none
  /\ wf[a].trace[i].code = VerifyStale

EmptySentinel == Cred("", "")

\* The cache file holds the empty sentinel while the re-login is under way.
C14_ClearedBeforeRelogin ==
  \A a \in Acc : wf[a].pc = "login2" => store[a] = EmptySentinel

\* A re-login that did not succeed leaves the empty sentinel in the cache file.
C14_FailedReloginLeavesSentinel ==
  \A a \in Acc : \A i \in 1..Len(wf[a].trace) :
    (StaleAt(a, i) /\ wf[a].pc = "done" /\ Len(wf[a].trace) = i + 1)
      => store[a] = EmptySentinel

\* Every request after the re-login carries the sessionid the re-login response
\* set, which is not the one the check found stale, and the payloads carry the
\* subject id of the re-login response.
C14_FreshAfterRelogin ==
  \A a \in Acc : \A i \in 1..Len(wf[a].trace) :
    StaleAt(a, i)
      => /\ \A j \in (i + 2)..Len(Requests(a)) :
              /\ Requests(a)[j].sent # wf[a].trace[i].sent
              /\ Requests(a)[j].sent = wf[a].trace[i + 1].set_cookie
         /\ \A j \in (i + 2)..Len(Requests(a)) :
              /\ Requests(a)[j].site = "create"
                   => wf[a].payload2_student_id = PyStr(wf[a].trace[i + 1].id)
              /\ Requests(a)[j].site = "submit"
                   => wf[a].payload3.student_id = PyStr(wf[a].trace[i + 1].id)

\* C14: after a first check that returned -2 the cache file holds the empty
\* sentinel before the re-login request is sent; no request after the re-login
\* carries the stale sessionid, each carries the new one and the new subject
\* id; a failed re-login leaves the empty sentinel in the cache file.
C14_StaleNeverReused ==
  /\ C14_ClearedBeforeRelogin
  /\ C14_FreshAfterRelogin
  /\ C14_FailedReloginLeavesSentinel

\* C15: when the workflow has ended, the cache file holds no non-empty
\* credential whose sessionid an eligibility check of the run answered with -2,
\* the credential of the re-login included.
C15_UnusableInvalidated ==
  \A a \in Acc :
    wf[a].pc = "done"
      => \A i \in VerifiedWith(a, VerifyStale) :
           ~(store[a].exists /\ store[a].sessid # "" /\ store[a].sessid = wf[a].trace[i].sent)

\* n = floor(c * m) for the multiplier m of grid index k.
IsFloorOf(n, c, k) == n * MulDenom <= c * MulNum(k) /\ c * MulNum(k) < (n + 1) * MulDenom

\* C16: a run that has issued the submission has one multiplier m of
\* [1.0, 1.3] with wait_time = floor(600 m), running_time = floor(601 m),
\* mileage = floor(2001 m), step_count = 2000.41... * m and pace = 301; a
\* smaller m gives no larger running_time and mileage; and after a countdown
\* of one-second sleeps running_time is the time waited or up to 2 more.
C16_OneMultiplier ==
  \A a \in Acc :
    SubmitIssued(a)
      => LET w == wf[a]
             p == wf[a].payload3
         IN /\ \E k \in 0..GridSteps :
                 /\ MulLoTenths * MulDenom <= MulNum(k) * 10
                 /\ MulNum(k) * 10 <= MulHiTenths * MulDenom
                 /\ IsFloorOf(w.wait_time, WaitBase, k)
                 /\ IsFloorOf(p.running_time, RunningTimeBase, k)
                 /\ IsFloorOf(p.mileage, MileageBase, k)
                 /\ p.step_count.num * StepCountDen * MulDenom
                      = StepCountNum * MulNum(k) * p.step_count.den
                 /\ sleep_len = 1 => w.elapsed = w.wait_time
            /\ p.pace = Pace
            /\ \A k \in 0..w.mult :
                 /\ generate_random_run_data(k).running_time <= p.running_time
                 /\ generate_random_run_data(k).mileage <= p.mileage
                 /\ generate_random_run_data(k).pace = p.pace
            /\ sleep_len = 1
                 => w.elapsed <= p.running_time /\ p.running_time <= w.elapsed + 2

\* C16's case: a run with the largest multiplier and one-second sleeps whose
\* submission was accepted.
C16_Witness ==
  \E a \in Acc :
    /\ sleep_len = 1
    /\ wf[a].pc = "stats2"
    /\ wf[a].mult = GridSteps
    /\ wf[a].payload3.running_time > RunningTimeBase
    /\ wf[a].payload3.mileage > MileageBase

IsPrefix(p, q) == Len(p) <= Len(q) /\ \A i \in 1..Len(p) : p[i] = q[i]

\* The request orders of a complete run: with or without the first login, with
\* or without the re-login and its check.
BusinessOrder == <<"create_line", "running_data", "update_record", "running_data">>
RequestOrders ==
  {pre \o <<"verify">> \o re \o BusinessOrder :
     pre \in {<<>>, <<"login">>}, re \in {<<>>, <<"login", "verify">>}}

\* The subject id of the most recent authentication of a: of the last login
\* response, or of the cached credential when the run has not logged in.
LastSubjectId(a) ==
  LET t == wf[a].trace
      logins == {i \in 1..Len(t) : Endpoint(t[i].site) = "login"}
  IN IF logins = {} THEN wf[a].cached_credentials.stuid
     ELSE PyStr(t[CHOOSE i \in logins : \A j \in logins : j <= i].id)

\* C17: the requests of one workflow follow the order [login] verify
\* [login verify] create statistics submit statistics, each issued when the
\* ones before it have returned; the route creation follows a check that
\* returned -1, the submission follows a route creation that returned a
\* non-empty record id, and it carries that record id and the subject id of
\* the most recent authentication.
C17_StrictOrder ==
  \A a \in Acc :
    LET t == wf[a].trace
        seq == CallSeq(a)
    IN /\ \E o \in RequestOrders : IsPrefix(seq, o)
       /\ Len(seq) <= Len(t) + 1
       /\ \A j \in 1..Len(seq) :
            /\ seq[j] = "create_line" => j > 1 /\ (j - 1) \in VerifiedWith(a, VerifyPass)
            /\ seq[j] = "update_record"
                 => /\ j > 2
                    /\ t[j - 2].site = "create" /\ ~t[j - 2].none /\ ~JFalsy(t[j - 2].record_id)
                    /\ wf[a].payload3.record_id = PyStr(t[j - 2].record_id)
                    /\ wf[a].payload3.student_id = LastSubjectId(a)
                    /\ wf[a].payload3.id = LastSubjectId(a)

\* C17's case: a complete run of eight requests, first login and re-login
\* included.
C17_Witness ==
  \E a \in Acc :
    /\ wf[a].result = "True"
    /\ Len(wf[a].trace) = 8

\* A step of the workflow of account a.
WorkflowStep(a) ==
  \/ Start(a)
  \/ DelayWake(a)
  \/ Response(a)
  \/ TransportFailure(a)
  \/ RetryWake(a)
  \/ OtherException(a)
  \/ WaitTick(a)

\* Every workflow that has not ended can take its next step, wherever the
\* other workflows are.
C18_CanStep ==
  \A a \in Acc :
    (main_pc = "gather" /\ Configured(a) /\ wf[a].pc # "done") => ENABLED WorkflowStep(a)

\* A step of one workflow leaves every other workflow as it is (the step of
\* main that creates the tasks aside).
C18_OthersUntouched ==
  \A a \in Acc :
    (wf'[a] # wf[a] /\ main_pc # "start") => \A b \in Acc \ {a} : wf'[b] = wf[b]

\* C18: while a workflow is suspended in its start delay, a backoff sleep, a
\* pending request or the countdown, every other workflow that has not ended
\* can take its next step, and no step of a workflow changes another one.
C18_Independent == []C18_CanStep /\ [][C18_OthersUntouched]_vars

\* C18's case: one workflow has run to its end, countdown included, while
\* another one is still in its start delay.
C18_Witness ==
  \E a, b \in Acc :
    /\ a # b
    /\ wf[a].pc = "delay"
    /\ wf[b].pc = "done"
    /\ wf[b].result = "True"

\* What a workflow has read is the content of its own cache file: while the
\* first check made with the cached credential is pending, sessid and stuid
\* are those of the account's file.
C19_ReadsOwn ==
  \A a \in Acc :
    (wf[a].pc = "verify1" /\ wf[a].jar = "")
      => /\ store[a].exists
         /\ wf[a].sessid = store[a].sessid
         /\ wf[a].stuid = store[a].stuid

\* A cache file changes only in a step of the workflow of its own account.
C19_WritesOwn ==
  \A b \in Acc :
    store'[b] # store[b] => wf'[b] # wf[b] /\ \A a \in Acc \ {b} : wf'[a] = wf[a]

\* C19: with pairwise distinct phones each workflow reads and writes the cache
\* file of its own account only: a step of one workflow leaves the files of
\* the other accounts unchanged, so a file has one writer.
C19_Partitioned == []C19_ReadsOwn /\ [][C19_WritesOwn]_vars

\* C19's case: two workflows have each logged in and saved their credential.
C19_Witness ==
  /\ login_credentials.n >= 2
  /\ \A a \in 1..2 :
       /\ wf[a].jar # ""
       /\ store[a] = Cred(wf[a].jar, PyStr(SubjectId(a)))

\* The first eligibility check of a is completed call i and gave neither -1
\* nor -2: another code, an empty body, or None.
IneligibleAt(a, i) ==
  /\ i \in 1..Len(wf[a].trace)
  /\ wf[a].trace[i].site = "verify1"
  /\ (wf[a].trace[i].none \/ wf[a].trace[i].code \notin {VerifyPass, VerifyStale})

\* After such a check the run is rejected with no later request, and the cache
\* file is what it was before the check: the file found at the start, or the
\* credential saved after the first login.
C20_RejectedUntouched ==
  \A a \in Acc : \A i \in 1..Len(wf[a].trace) :
    IneligibleAt(a, i)
      => /\ Rejected(a) /\ ~wf[a].faulted
         /\ Len(Requests(a)) = i
         /\ \A j \in 1..Len(Requests(a)) : j > i => Endpoint(Requests(a)[j].site) # "login"
         /\ wf[a].saves = i - 1
         /\ IF i = 1 THEN load_credentials_from_cache(store[a]) = wf[a].cached_credentials
            ELSE store[a] = Cred(wf[a].trace[1].set_cookie, PyStr(wf[a].trace[1].id))

\* The step that ends the run on the result of the first check leaves the
\* cache file as it is.
C20_CheckKeepsStore ==
  \A a \in Acc : (wf[a].pc = "verify1" /\ wf'[a].pc = "done") => store'[a] = store[a]

\* C20: a first eligibility check that yields neither -1 nor -2 (another code,
\* or None after the retries) ends the run as rejected, with no login and no
\* other request after it, and the cache file is neither cleared nor replaced.
C20_IneligibleKeepsCredential == []C20_RejectedUntouched /\ [][C20_CheckKeepsStore]_vars

\* C20's case: the first check, made with a cached credential, fails at
\* transport level on every attempt.
C20_Witness ==
  \E a \in Acc :
    /\ UsableCache(a)
    /\ Rejected(a)
    /\ wf[a].last_call.site = "verify1"
    /\ wf[a].last_call.ret = "exhausted"
    /\ store[a].exists /\ store[a].sessid = wf[a].cached_credentials.sessid

====
